---- MODULE Spec2Model ----
(***************************************************************************)
(* crashme: a TCP gateway that runs one pre-built executable per           *)
(* connection under a concurrency ceiling (cmd/crashme/main.go).           *)
(*                                                                         *)
(* Two machines are modelled.                                              *)
(*   Spec / FairSpec / SpecAccept : the server -- the accept loop of main, *)
(*       the weighted semaphore of the checker and one handleConnection    *)
(*       goroutine per accepted connection.                                *)
(*   SpecProxy / FairSpecProxy : one commandProxy -- the child process,    *)
(*       the goroutine calling run() and the three copy goroutines.        *)
(*   SpecLine : slowReadFirstLine on one connection, byte by byte, up to   *)
(*       the creation of the submission file.                              *)
(*   SpecPath : the mapping of the task name to the executable's path.     *)
(*   SpecFetch / FairSpecFetch : flagFetcher.fetchFlag, the retry loop of  *)
(*       backoff.Retry around doFetchFlag.                                 *)
(*   SpecScore : Scorer.scorePipeline (internal/scorer/scorer.go) applied  *)
(*       to two pipelines of one task.                                     *)
(***************************************************************************)
EXTENDS Naturals, Sequences, FiniteSets, TLC

\* ------------------------------------------------------------------ bounds

\* Client connections that the listener accepts.
MaxConns == 2

\* Failed listener.Accept() calls in Spec and FairSpec (in SpecAccept the
\* error budget itself bounds them).
MaxAcceptFailures == 1

\* -concurrency, the size of the semaphore.
concurrencyLevel == 1

\* Payload bytes the client sends after the task line (SpecProxy).
MaxPayload == 2

\* Bytes the child writes to its stdout (SpecProxy).
MaxOutput == 2

\* Bytes the client sends before it closes its sending side (SpecLine).
MaxLineInput == 102

\* Parts of the task name between its slashes (SpecPath).
MaxTaskParts == 4

\* Seconds one pause between two attempts of fetchFlag lasts, at most (SpecFetch).
MaxSleep == 2

\* Seconds one attempt of fetchFlag lasts, at most (SpecFetch).
MaxAttemptTime == 1

\* task.Score (SpecScore).
MaxTaskScore == 4

\* The day of the group's deadline (SpecScore).
MaxDeadline == 1

\* ------------------------------------------------------- program constants

acceptErrorsBudget == 10

\* proxy.wg.Add(2)
wgAdd == 2

MAX_FIRST_LINE_SIZE == 100

\* backoffPolicy.MaxElapsedTime, in seconds
MaxElapsedTime == 15

\* week, in days
week == 7

Conns == 1 .. MaxConns

\* The error commandProxy.run returns:
\*   "nil"      the child exited with code 0
\*   "exit"     *exec.ExitError, the child exited with a non-zero code
\*   "sigint"   *exec.ExitError, the child was terminated by SIGINT
\*   "signal"   *exec.ExitError, the child was terminated by another signal
\*   "waiterr"  cmd.Wait failed with an error that is no *exec.ExitError
\*   "starterr" cmd.Start failed
RunErrors == {"nil", "exit", "sigint", "signal", "waiterr", "starterr"}
WaitErrors == RunErrors \ {"starterr"}

VARIABLES
    \* ---- main
    process,                    \* "running" | "fatal" (panic(err) in main) | "crashed" (panic in a goroutine)
    currentAcceptErrorsBudget,
    connId,
    nilHandlers,                \* handleConnection goroutines started with a nil conn, not yet run
    \* ---- checker.sema (semaphore.Weighted)
    semaCur,                    \* tokens handed out
    semaWaiters,                \* FIFO of blocked Acquire calls not yet granted
    \* ---- one handleConnection goroutine per accepted connection
    pc,
    input,                      \* what the first-line reader finds on the connection
    sent,                       \* what was written to the connection, in order
    err,                        \* the error doHandleConnection returns
    runErr,                     \* the error proxy.run returned
    acquired,                   \* successful TryAcquire/Acquire calls
    released,                   \* sema.Release calls
    fetchCalls,                 \* flagFetcher.fetchFlag calls
    \* ---- one commandProxy (SpecProxy)
    runPc,                      \* the goroutine in run(), then the rest of the session
    stdinPc,                    \* handleStdin
    stdoutPc,                   \* handleStdout
    stderrPc,                   \* handleStderr
    wg,                         \* the WaitGroup's counter
    childState,                 \* "none" | "running" | "exited"
    exitStatus,                 \* the child's wait status
    sigintPending,              \* SIGINT sent to the child and not yet acted on
    stdinPipeOpen,              \* the parent's write end of the child's stdin
    stdoutPipeOpen,             \* the parent's read end of the child's stdout
    stderrPipeOpen,             \* the parent's read end of the child's stderr
    connIn,                     \* the connection's read side: "open" | "eof" | "closed"
    pending,                    \* payload bytes received and not yet read, in order
    payload,                    \* payload bytes the client has sent (byte i is the value i)
    fileBytes,                  \* the bytes the TeeReader wrote to the submission file
    childIn,                    \* the bytes written into the child's stdin pipe
    outBuf,                     \* bytes the child wrote, still in the stdout pipe
    written,                    \* bytes the child wrote to its stdout
    delivered,                  \* bytes of the child's stdout written to the connection
    result,                     \* what run() returned
    eofBeforeExit,              \* io.Copy of handleStdin saw the input end while the child ran
    signalCalled,               \* handleStdin called c.cmd.Process.Signal
    \* ---- slowReadFirstLine on one connection (SpecLine)
    lineInput,                  \* what the client sends: len bytes, the first newline at nl (0: none)
    linePc,
    lineConsumed,               \* bytes read from the connection
    lineN,                      \* io.LimitedReader.N of the reader of the first line
    lineStr,                    \* str.Len()
    lineErr,                    \* the error doHandleConnection returns
    lineFile,                   \* os.Create(inputPath) was called
    lineChild,                  \* proxy.run() was called
    \* ---- the task's executable (SpecPath)
    task,                       \* the task name, split at its slashes
    pathPc,
    executablePath,             \* as a sequence of path elements below the root
    statted,                    \* the paths given to isRegularFile
    executed,                   \* the paths given to exec.Command and started
    \* ---- flagFetcher.fetchFlag (SpecFetch)
    fetchPc,
    elapsed,                    \* seconds since backoff.Retry reset the policy
    attempts,                   \* doFetchFlag calls
    successes,                  \* doFetchFlag calls that returned a flag
    lastErr,                    \* what the last doFetchFlag call returned
    flag,                       \* the variable flag of fetchFlag
    fetchErr,                   \* the error fetchFlag returns
    \* ---- Scorer.scorePipeline (SpecScore)
    scoreIn,                    \* task.Score, pipeline.Status, group.Deadline, two CreatedAt
    scorePc,
    scoreOut                    \* the two scores

serverVars == <<process, currentAcceptErrorsBudget, connId, nilHandlers, semaCur,
                semaWaiters, pc, input, sent, err, runErr, acquired, released,
                fetchCalls>>

proxyVars == <<runPc, stdinPc, stdoutPc, stderrPc, wg, childState, exitStatus,
               sigintPending, stdinPipeOpen, stdoutPipeOpen, stderrPipeOpen, connIn,
               pending, payload, fileBytes, childIn, outBuf, written, delivered,
               result, eofBeforeExit, signalCalled>>

lineVars == <<lineInput, linePc, lineConsumed, lineN, lineStr, lineErr, lineFile,
              lineChild>>

pathVars == <<task, pathPc, executablePath, statted, executed>>

fetchVars == <<fetchPc, elapsed, attempts, successes, lastErr, flag, fetchErr>>

scoreVars == <<scoreIn, scorePc, scoreOut>>

\* The variables of the specifications of single functions.
pureVars == <<lineVars, pathVars, fetchVars, scoreVars>>

vars == <<serverVars, proxyVars, pureVars>>

InitProgram ==
    /\ process = "running"
    /\ currentAcceptErrorsBudget = acceptErrorsBudget
    /\ connId = 0
    /\ nilHandlers = 0
    /\ semaCur = 0
    /\ semaWaiters = <<>>
    /\ pc = [c \in Conns |-> "none"]
    /\ input = [c \in Conns |-> "none"]
    /\ sent = [c \in Conns |-> <<>>]
    /\ err = [c \in Conns |-> "nil"]
    /\ runErr = [c \in Conns |-> "none"]
    /\ acquired = [c \in Conns |-> 0]
    /\ released = [c \in Conns |-> 0]
    /\ fetchCalls = [c \in Conns |-> 0]
    \* newCommandProxy has returned, the client has sent its task line
    /\ runPc = "start"
    /\ stdinPc = "idle"
    /\ stdoutPc = "idle"
    /\ stderrPc = "idle"
    /\ wg = wgAdd
    /\ childState = "none"
    /\ exitStatus = "none"
    /\ sigintPending = FALSE
    /\ stdinPipeOpen = TRUE
    /\ stdoutPipeOpen = TRUE
    /\ stderrPipeOpen = TRUE
    /\ connIn = "open"
    /\ pending = <<>>
    /\ payload = 0
    /\ fileBytes = <<>>
    /\ childIn = <<>>
    /\ outBuf = 0
    /\ written = 0
    /\ delivered = 0
    /\ result = "none"
    /\ eofBeforeExit = FALSE
    /\ signalCalled = FALSE

\* The reader of the first line before it is called.
LineIdle ==
    /\ linePc = "idle"
    /\ lineConsumed = 0
    /\ lineN = 0
    /\ lineStr = 0
    /\ lineErr = "nil"
    /\ lineFile = FALSE
    /\ lineChild = FALSE

LineInputs == [len : 0 .. MaxLineInput, nl : 0 .. MaxLineInput]

\* The parts a task name is made of: empty (two slashes in a row, or a slash
\* at either end), ".", "..", and names with and without "_" and "-".
Segments == {"", ".", "..", "t", "a_b", "a-b"}

RECURSIVE SeqsUpTo(_, _)
SeqsUpTo(S, n) ==
    IF n = 0 THEN {<<>>}
    ELSE LET shorter == SeqsUpTo(S, n - 1)
         IN  shorter \cup {Append(q, x) : q \in shorter, x \in S}

TaskNames == SeqsUpTo(Segments, MaxTaskParts) \ {<<>>}

\* Before the task name is mapped.
PathIdle ==
    /\ pathPc = "idle"
    /\ executablePath = <<>>
    /\ statted = {}
    /\ executed = {}

\* Before fetchFlag is called.
FetchIdle ==
    /\ fetchPc = "idle"
    /\ elapsed = 0
    /\ attempts = 0
    /\ successes = 0
    /\ lastErr = "none"
    /\ flag = ""
    /\ fetchErr = "none"

\* Days on which a pipeline is created: from before the first deadline to
\* after the week that follows the last one.
Days == 0 .. MaxDeadline + week + 2

ScoreInputs ==
    [score : 0 .. MaxTaskScore, status : {"success", "failed"},
     deadline : 1 .. MaxDeadline, createdAt : Days, later : Days]

\* Before scorePipeline is called.
ScoreIdle ==
    /\ scorePc = "idle"
    /\ scoreOut = <<0, 0>>

LineOff == lineInput = [len |-> 0, nl |-> 0] /\ LineIdle

PathOff == task = <<"t">> /\ PathIdle

ScoreOff ==
    /\ scoreIn = [score |-> 0, status |-> "failed", deadline |-> 1,
                  createdAt |-> 0, later |-> 0]
    /\ ScoreIdle

Init ==
    /\ InitProgram
    /\ LineOff
    /\ PathOff
    /\ FetchIdle
    /\ ScoreOff

\* ------------------------------------------------------ semaphore.Weighted

\* TryAcquire without the test of the free tokens.
TryAcquireOk_NoLimit(cur, waiters) == TRUE

\* A test that fails while exactly one token is free.
TryAcquireOk_OffByOne(cur, waiters) == concurrencyLevel - cur > 1 /\ waiters = <<>>

\* TryAcquire(1), and the fast path of Acquire(ctx, 1): a token is free and
\* nobody is queued.
TryAcquireOk(cur, waiters) == concurrencyLevel - cur >= 1 /\ waiters = <<>>

Min(a, b) == IF a < b THEN a ELSE b

\* A cancelled waiter that is left in the queue.
RemoveWaiter_Keep(waiters, c) == waiters

\* Acquire, on ctx.Done(): s.waiters.Remove(elem)
RemoveWaiter(waiters, c) == SelectSeq(waiters, LAMBDA w : w # c)

InWaiters(c) == \E i \in 1 .. Len(semaWaiters) : semaWaiters[i] = c

\* notifyWaiters: hand the free tokens to the waiters at the front of the queue.
NotifyWaiters(cur, waiters) ==
    LET g == Min(Len(waiters), concurrencyLevel - cur)
    IN  [cur |-> cur + g, waiters |-> SubSeq(waiters, g + 1, Len(waiters))]

\* Release(1).
SemaRelease(cur, waiters) == NotifyWaiters(cur - 1, waiters)

\* ------------------------------------------------------------ main's loop

Accepted == Cardinality({c \in Conns : pc[c] # "none"})

BudgetAfterFailure(b) == b - 1

\* A success that resets the budget.
BudgetAfterSuccess_Reset(b) == acceptErrorsBudget

BudgetAfterSuccess(b) == IF b < acceptErrorsBudget THEN b + 1 ELSE b

\* listener.Accept() returns a connection.
AcceptOk(maxConns) ==
    /\ process = "running"
    /\ Accepted < maxConns
    /\ currentAcceptErrorsBudget' = BudgetAfterSuccess(currentAcceptErrorsBudget)
    /\ pc' = [pc EXCEPT ![Accepted + 1] = "handle"]
    /\ connId' = connId + 1
    /\ UNCHANGED <<process, nilHandlers, semaCur, semaWaiters, input, sent, err,
                   runErr, acquired, released, fetchCalls>>
    /\ UNCHANGED <<proxyVars, pureVars>>

\* listener.Accept() returns (nil, err): main panics when the budget is used
\* up, and otherwise goes on to the go statement with the nil connection.
AcceptFail(maxFailures) ==
    /\ process = "running"
    /\ nilHandlers < maxFailures
    /\ IF currentAcceptErrorsBudget = 0
       THEN /\ process' = "fatal"
            /\ UNCHANGED <<currentAcceptErrorsBudget, nilHandlers, connId>>
       ELSE /\ currentAcceptErrorsBudget' = BudgetAfterFailure(currentAcceptErrorsBudget)
            /\ nilHandlers' = nilHandlers + 1
            /\ connId' = connId + 1
            /\ UNCHANGED process
    /\ UNCHANGED <<semaCur, semaWaiters, pc, input, sent, err, runErr, acquired,
                   released, fetchCalls>>
    /\ UNCHANGED <<proxyVars, pureVars>>

\* handleConnection(ctx, nil, id): conn.RemoteAddr() on the nil interface
\* panics, nothing recovers it, the process dies.
HandleNilConn ==
    /\ process = "running"
    /\ nilHandlers > 0
    /\ nilHandlers' = nilHandlers - 1
    /\ process' = "crashed"
    /\ UNCHANGED <<currentAcceptErrorsBudget, connId, semaCur, semaWaiters, pc,
                   input, sent, err, runErr, acquired, released, fetchCalls>>
    /\ UNCHANGED <<proxyVars, pureVars>>

mainVars == <<process, currentAcceptErrorsBudget, connId, nilHandlers>>

\* ------------------------------------------------------------- the client

\* The client's first bytes reach the reader of the first line: a line
\* ("line"), or bytes that end before any newline ("noline").  Until then the
\* read blocks.
ClientSend(c) ==
    /\ process = "running"
    /\ pc[c] = "readLine"
    /\ input[c] = "none"
    /\ \E i \in {"line", "noline"} : input' = [input EXCEPT ![c] = i]
    /\ UNCHANGED <<mainVars, semaCur, semaWaiters, pc, sent, err, runErr,
                   acquired, released, fetchCalls>>
    /\ UNCHANGED <<proxyVars, pureVars>>

\* ------------------------------------------------------ doHandleConnection

Write(c, m) == sent' = [sent EXCEPT ![c] = Append(@, m)]

\* if !c.sema.TryAcquire(1)
TryAcquire(c) ==
    /\ process = "running"
    /\ pc[c] = "handle"
    /\ IF TryAcquireOk(semaCur, semaWaiters)
       THEN /\ semaCur' = semaCur + 1
            /\ acquired' = [acquired EXCEPT ![c] = @ + 1]
            /\ pc' = [pc EXCEPT ![c] = "prompt"]
       ELSE /\ pc' = [pc EXCEPT ![c] = "notice"]
            /\ UNCHANGED <<semaCur, acquired>>
    /\ UNCHANGED <<mainVars, semaWaiters, input, sent, err, runErr, released, fetchCalls>>
    /\ UNCHANGED <<proxyVars, pureVars>>

\* The notice, and the call of c.sema.Acquire(ctx, 1) up to where it blocks.
Acquire(c) ==
    /\ process = "running"
    /\ pc[c] = "notice"
    /\ Write(c, "Waiting")
    /\ IF TryAcquireOk(semaCur, semaWaiters)
       THEN /\ semaCur' = semaCur + 1
            /\ acquired' = [acquired EXCEPT ![c] = @ + 1]
            /\ pc' = [pc EXCEPT ![c] = "prompt"]
            /\ UNCHANGED semaWaiters
       ELSE /\ semaWaiters' = Append(semaWaiters, c)
            /\ pc' = [pc EXCEPT ![c] = "blocked"]
            /\ UNCHANGED <<semaCur, acquired>>
    /\ UNCHANGED <<mainVars, input, err, runErr, released, fetchCalls>>
    /\ UNCHANGED <<proxyVars, pureVars>>

\* Acquire returns nil: a Release handed this waiter a token.
AcquireReady(c) ==
    /\ process = "running"
    /\ pc[c] = "blocked"
    /\ ~InWaiters(c)
    /\ acquired' = [acquired EXCEPT ![c] = @ + 1]
    /\ pc' = [pc EXCEPT ![c] = "prompt"]
    /\ UNCHANGED <<mainVars, semaCur, semaWaiters, input, sent, err, runErr,
                   released, fetchCalls>>
    /\ UNCHANGED <<proxyVars, pureVars>>

\* A failed Acquire that is not returned from.
AcquireFailedPc_Ignored == "prompt"

\* if err != nil { return ... } after c.sema.Acquire: doHandleConnection
\* returns before the deferred Release is registered.
AcquireFailedPc == "retAcquire"

\* Acquire returns ctx.Err(): the minute of context.WithTimeout is over and the
\* waiter is still queued.
AcquireCancelled(c) ==
    /\ process = "running"
    /\ pc[c] = "blocked"
    /\ InWaiters(c)
    /\ LET s == NotifyWaiters(semaCur, RemoveWaiter(semaWaiters, c))
       IN  /\ semaCur' = s.cur
           /\ semaWaiters' = s.waiters
    /\ err' = [err EXCEPT ![c] = "acquire"]
    /\ pc' = [pc EXCEPT ![c] = AcquireFailedPc]
    /\ UNCHANGED <<mainVars, input, sent, runErr, acquired, released, fetchCalls>>
    /\ UNCHANGED <<proxyVars, pureVars>>

\* io.WriteString(conn, "Enter task name: ")
Prompt(c) ==
    /\ process = "running"
    /\ pc[c] = "prompt"
    /\ Write(c, "Prompt")
    /\ pc' = [pc EXCEPT ![c] = "readLine"]
    /\ UNCHANGED <<mainVars, semaCur, semaWaiters, input, err, runErr, acquired,
                   released, fetchCalls>>
    /\ UNCHANGED <<proxyVars, pureVars>>

Fail(c, e) ==
    /\ err' = [err EXCEPT ![c] = e]
    /\ pc' = [pc EXCEPT ![c] = "ret"]

\* slowReadFirstLine blocks until the connection delivers bytes.
ReadFirstLine(c) ==
    /\ process = "running"
    /\ pc[c] = "readLine"
    /\ input[c] # "none"
    /\ input' = [input EXCEPT ![c] = "none"]
    /\ IF input[c] = "line"
       THEN pc' = [pc EXCEPT ![c] = "resolve"] /\ UNCHANGED err
       ELSE Fail(c, "firstline")
    /\ UNCHANGED <<mainVars, semaCur, semaWaiters, sent, runErr, acquired,
                   released, fetchCalls>>
    /\ UNCHANGED <<proxyVars, pureVars>>

\* isRegularFile(executablePath)
ResolveTask(c) ==
    /\ process = "running"
    /\ pc[c] = "resolve"
    /\ \E regular \in BOOLEAN :
          IF regular
          THEN pc' = [pc EXCEPT ![c] = "create"] /\ UNCHANGED err
          ELSE Fail(c, "unknown")
    /\ UNCHANGED <<mainVars, semaCur, semaWaiters, input, sent, runErr, acquired,
                   released, fetchCalls>>
    /\ UNCHANGED <<proxyVars, pureVars>>

\* os.Create(inputPath)
CreateSubmit(c) ==
    /\ process = "running"
    /\ pc[c] = "create"
    /\ \E ok \in BOOLEAN :
          IF ok
          THEN pc' = [pc EXCEPT ![c] = "prepare"] /\ UNCHANGED err
          ELSE Fail(c, "create")
    /\ UNCHANGED <<mainVars, semaCur, semaWaiters, input, sent, runErr, acquired,
                   released, fetchCalls>>
    /\ UNCHANGED <<proxyVars, pureVars>>

\* newCommandProxy, then the "Running task" line.
PrepareProxy(c) ==
    /\ process = "running"
    /\ pc[c] = "prepare"
    /\ \E ok \in BOOLEAN :
          IF ok
          THEN /\ Write(c, "Running")
               /\ pc' = [pc EXCEPT ![c] = "run"]
               /\ UNCHANGED err
          ELSE Fail(c, "prepare") /\ UNCHANGED sent
    /\ UNCHANGED <<mainVars, semaCur, semaWaiters, input, runErr, acquired,
                   released, fetchCalls>>
    /\ UNCHANGED <<proxyVars, pureVars>>

\* proxy.run(): c.cmd.Start()
StartChild(c) ==
    /\ process = "running"
    /\ pc[c] = "run"
    /\ \E ok \in BOOLEAN :
          IF ok
          THEN pc' = [pc EXCEPT ![c] = "running"] /\ UNCHANGED runErr
          ELSE /\ runErr' = [runErr EXCEPT ![c] = "starterr"]
               /\ pc' = [pc EXCEPT ![c] = "classify"]
    /\ UNCHANGED <<mainVars, semaCur, semaWaiters, input, sent, err, acquired,
                   released, fetchCalls>>
    /\ UNCHANGED <<proxyVars, pureVars>>

\* proxy.run() returns what c.cmd.Wait() returned.
RunReturns(c) ==
    /\ process = "running"
    /\ pc[c] = "running"
    /\ \E r \in WaitErrors : runErr' = [runErr EXCEPT ![c] = r]
    /\ pc' = [pc EXCEPT ![c] = "classify"]
    /\ UNCHANGED <<mainVars, semaCur, semaWaiters, input, sent, err, acquired,
                   released, fetchCalls>>
    /\ UNCHANGED <<proxyVars, pureVars>>

\* The classification without the test of status.Signal().
Outcome_NoSignalTest(e) ==
    CASE e = "nil" -> "NormalExit"
      [] e \in {"exit", "signal", "sigint"} -> "CrashExit"
      [] OTHER -> "StartFailure"

\* errors.As(err, &exitError) and status.Signal() == os.Interrupt
Outcome(e) ==
    CASE e = "nil" -> "NormalExit"
      [] e = "sigint" -> "Interrupted"
      [] e \in {"exit", "signal"} -> "CrashExit"
      [] OTHER -> "StartFailure"

Classify(c) ==
    /\ process = "running"
    /\ pc[c] = "classify"
    /\ CASE Outcome(runErr[c]) = "NormalExit" ->
                /\ Write(c, "Finished")
                /\ pc' = [pc EXCEPT ![c] = "ret"]
                /\ UNCHANGED err
         [] Outcome(runErr[c]) = "Interrupted" ->
                Fail(c, "eof") /\ UNCHANGED sent
         [] Outcome(runErr[c]) = "CrashExit" ->
                \E ok \in BOOLEAN :
                    IF ok
                    THEN /\ Write(c, "CommandFailed")
                         /\ pc' = [pc EXCEPT ![c] = "fetch"]
                         /\ UNCHANGED err
                    ELSE Fail(c, "write") /\ UNCHANGED sent
         [] OTHER ->
                Fail(c, "start") /\ UNCHANGED sent
    /\ UNCHANGED <<mainVars, semaCur, semaWaiters, input, runErr, acquired,
                   released, fetchCalls>>
    /\ UNCHANGED <<proxyVars, pureVars>>

\* c.flagFetcher.fetchFlag(task)
FetchFlag(c) ==
    /\ process = "running"
    /\ pc[c] = "fetch"
    /\ fetchCalls' = [fetchCalls EXCEPT ![c] = @ + 1]
    /\ \E ok \in BOOLEAN :
          IF ok
          THEN /\ Write(c, "Flag")
               /\ pc' = [pc EXCEPT ![c] = "ret"]
               /\ UNCHANGED err
          ELSE Fail(c, "fetch") /\ UNCHANGED sent
    /\ UNCHANGED <<mainVars, semaCur, semaWaiters, input, runErr, acquired, released>>
    /\ UNCHANGED <<proxyVars, pureVars>>

\* The release deferred before the slot is held.
DeferRegistered_Early(p) == TRUE

\* defer c.sema.Release(1) is registered once the slot is held: the return
\* after a failed Acquire comes before it.
DeferRegistered(p) == p = "ret"

\* An error line that is written after every session.
ErrorLine_Always(e) == <<"Error">>

\* if err != nil { fmt.Fprintf(conn, "Error: %s\n", err) }
ErrorLine(e) == IF e # "nil" THEN <<"Error">> ELSE <<>>

\* doHandleConnection returns and handleConnection ends: the deferred Release
\* (and cancel), the error line if there is an error, the deferred conn.Close().
Return(c) ==
    /\ process = "running"
    /\ pc[c] \in {"ret", "retAcquire"}
    /\ IF DeferRegistered(pc[c])
       THEN LET s == SemaRelease(semaCur, semaWaiters)
            IN  /\ semaCur' = s.cur
                /\ semaWaiters' = s.waiters
                /\ released' = [released EXCEPT ![c] = @ + 1]
       ELSE UNCHANGED <<semaCur, semaWaiters, released>>
    /\ sent' = [sent EXCEPT ![c] = @ \o ErrorLine(err[c])]
    /\ pc' = [pc EXCEPT ![c] = "closed"]
    /\ UNCHANGED <<mainVars, input, err, runErr, acquired, fetchCalls>>
    /\ UNCHANGED <<proxyVars, pureVars>>

Session(c) ==
    \/ ClientSend(c)
    \/ TryAcquire(c)
    \/ Acquire(c)
    \/ AcquireReady(c)
    \/ AcquireCancelled(c)
    \/ Prompt(c)
    \/ ReadFirstLine(c)
    \/ ResolveTask(c)
    \/ CreateSubmit(c)
    \/ PrepareProxy(c)
    \/ StartChild(c)
    \/ RunReturns(c)
    \/ Classify(c)
    \/ FetchFlag(c)
    \/ Return(c)

Next ==
    \/ AcceptOk(MaxConns)
    \/ AcceptFail(MaxAcceptFailures)
    \/ HandleNilConn
    \/ \E c \in Conns : Session(c)


\* main's loop alone: the accept loop and the goroutines it starts, up to the
\* first statement of handleConnection.
AcceptFailuresToFatal == acceptErrorsBudget + MaxConns + 1

NextAccept ==
    \/ AcceptOk(MaxConns)
    \/ AcceptFail(AcceptFailuresToFatal)
    \/ HandleNilConn

\* -------------------------------------------------------------- the child

ExitStatuses == {"exit0", "exitN", "SIGINT", "SIGOTHER"}

\* The child ends: its state and its wait status.
ChildEnds(status) ==
    /\ childState' = "exited"
    /\ exitStatus' = status

\* The child writes a byte to its stdout while the parent's read end is open.
ChildWrite ==
    /\ childState = "running"
    /\ stdoutPipeOpen
    /\ written < MaxOutput
    /\ written' = written + 1
    /\ outBuf' = outBuf + 1
    /\ UNCHANGED <<runPc, stdinPc, stdoutPc, stderrPc, wg, childState, exitStatus,
                   sigintPending, stdinPipeOpen, stdoutPipeOpen, stderrPipeOpen,
                   connIn, pending, payload, fileBytes, childIn, delivered, result,
                   eofBeforeExit, signalCalled>>
    /\ UNCHANGED <<serverVars, pureVars>>

\* The child writes to stdout or stderr after the parent closed the read end:
\* SIGPIPE terminates it.
ChildSigpipe ==
    /\ childState = "running"
    /\ ~stdoutPipeOpen \/ ~stderrPipeOpen
    /\ ChildEnds("SIGOTHER")
    /\ UNCHANGED <<runPc, stdinPc, stdoutPc, stderrPc, wg, sigintPending,
                   stdinPipeOpen, stdoutPipeOpen, stderrPipeOpen, connIn, pending,
                   payload, fileBytes, childIn, outBuf, written, delivered, result,
                   eofBeforeExit, signalCalled>>
    /\ UNCHANGED <<serverVars, pureVars>>

\* The child ends on its own: exit(0), exit(n), or a fatal signal it raised.
ChildExit ==
    /\ childState = "running"
    /\ \E status \in {"exit0", "exitN", "SIGOTHER"} : ChildEnds(status)
    /\ UNCHANGED <<runPc, stdinPc, stdoutPc, stderrPc, wg, sigintPending,
                   stdinPipeOpen, stdoutPipeOpen, stderrPipeOpen, connIn, pending,
                   payload, fileBytes, childIn, outBuf, written, delivered, result,
                   eofBeforeExit, signalCalled>>
    /\ UNCHANGED <<serverVars, pureVars>>

\* The pending SIGINT reaches the child: it dies of it, or it handles or
\* ignores it and goes on.
ChildSigint ==
    /\ childState = "running"
    /\ sigintPending
    /\ sigintPending' = FALSE
    /\ \/ ChildEnds("SIGINT")
       \/ UNCHANGED <<childState, exitStatus>>
    /\ UNCHANGED <<runPc, stdinPc, stdoutPc, stderrPc, wg, stdinPipeOpen,
                   stdoutPipeOpen, stderrPipeOpen, connIn, pending, payload,
                   fileBytes, childIn, outBuf, written, delivered, result,
                   eofBeforeExit, signalCalled>>
    /\ UNCHANGED <<serverVars, pureVars>>

\* ------------------------------------------------- the client, after the line

\* The client sends a payload byte.
ClientSendByte ==
    /\ connIn = "open"
    /\ payload < MaxPayload
    /\ payload' = payload + 1
    /\ pending' = Append(pending, payload + 1)
    /\ UNCHANGED <<runPc, stdinPc, stdoutPc, stderrPc, wg, childState, exitStatus,
                   sigintPending, stdinPipeOpen, stdoutPipeOpen, stderrPipeOpen,
                   connIn, fileBytes, childIn, outBuf, written, delivered, result,
                   eofBeforeExit, signalCalled>>
    /\ UNCHANGED <<serverVars, pureVars>>

\* The client closes its send side (or the LimitReader's cap is reached).
ClientClose ==
    /\ connIn = "open"
    /\ connIn' = "eof"
    /\ UNCHANGED <<runPc, stdinPc, stdoutPc, stderrPc, wg, childState, exitStatus,
                   sigintPending, stdinPipeOpen, stdoutPipeOpen, stderrPipeOpen,
                   pending, payload, fileBytes, childIn, outBuf, written, delivered,
                   result, eofBeforeExit, signalCalled>>
    /\ UNCHANGED <<serverVars, pureVars>>

\* ------------------------------------------------------- commandProxy.run

\* exec.ExitError or nil, from the wait status.
WaitError(status) ==
    CASE status = "exit0" -> "nil"
      [] status = "exitN" -> "exit"
      [] status = "SIGINT" -> "sigint"
      [] OTHER -> "signal"

\* c.cmd.Start(), then the three go statements.
ProxyStart ==
    /\ runPc = "start"
    /\ \E ok \in BOOLEAN :
          IF ok
          THEN /\ childState' = "running"
               /\ stdinPc' = "copy"
               /\ stdoutPc' = "copy"
               /\ stderrPc' = "copy"
               /\ runPc' = "wait"
               /\ UNCHANGED result
          ELSE /\ result' = "starterr"
               /\ runPc' = "returned"
               /\ UNCHANGED <<childState, stdinPc, stdoutPc, stderrPc>>
    /\ UNCHANGED <<wg, exitStatus, sigintPending, stdinPipeOpen, stdoutPipeOpen,
                   stderrPipeOpen, connIn, pending, payload, fileBytes, childIn,
                   outBuf, written, delivered, eofBeforeExit, signalCalled>>
    /\ UNCHANGED <<serverVars, pureVars>>

\* c.cmd.Wait() returns: the child has exited, Wait closes the parent's pipe
\* ends (what the stdout pipe still holds is gone).
ProxyWait ==
    /\ runPc = "wait"
    /\ childState = "exited"
    /\ result' = WaitError(exitStatus)
    /\ stdinPipeOpen' = FALSE
    /\ stdoutPipeOpen' = FALSE
    /\ stderrPipeOpen' = FALSE
    /\ outBuf' = 0
    /\ runPc' = "join"
    /\ UNCHANGED <<stdinPc, stdoutPc, stderrPc, wg, childState, exitStatus,
                   sigintPending, connIn, pending, payload, fileBytes, childIn,
                   written, delivered, eofBeforeExit, signalCalled>>
    /\ UNCHANGED <<serverVars, pureVars>>

\* A join that waits for one copy task only.
WgWaitReady_One(w) == w <= 1

\* c.wg.Wait() returns when the counter is zero.
WgWaitReady(w) == w = 0

ProxyJoin ==
    /\ runPc = "join"
    /\ WgWaitReady(wg)
    /\ runPc' = "returned"
    /\ UNCHANGED <<stdinPc, stdoutPc, stderrPc, wg, childState, exitStatus,
                   sigintPending, stdinPipeOpen, stdoutPipeOpen, stderrPipeOpen,
                   connIn, pending, payload, fileBytes, childIn, outBuf, written,
                   delivered, result, eofBeforeExit, signalCalled>>
    /\ UNCHANGED <<serverVars, pureVars>>

\* The rest of the session: doHandleConnection classifies the result and
\* writes its last line, handleConnection closes the connection.
SessionEnd ==
    /\ runPc = "returned"
    /\ runPc' = "closed"
    /\ connIn' = "closed"
    /\ UNCHANGED <<stdinPc, stdoutPc, stderrPc, wg, childState, exitStatus,
                   sigintPending, stdinPipeOpen, stdoutPipeOpen, stderrPipeOpen,
                   pending, payload, fileBytes, childIn, outBuf, written, delivered,
                   result, eofBeforeExit, signalCalled>>
    /\ UNCHANGED <<serverVars, pureVars>>

\* ---------------------------------------------------------- handleStdin

\* A reader that hands the bytes on without writing them to the file.
TeeWrite_Skip(file, b) == file

\* io.TeeReader(reader, submitFile): what is read is written to the file
\* before Read returns.
TeeWrite(file, b) == Append(file, b)

\* One round of io.Copy(c.stdinPipe, c.stdin): the TeeReader reads a byte and
\* writes it to the submission file, then the byte is written to the pipe;
\* a failed write (the child is gone, or Wait closed the pipe) ends the copy.
StdinCopy ==
    /\ stdinPc = "copy"
    /\ connIn # "closed"
    /\ pending # <<>>
    /\ pending' = Tail(pending)
    /\ fileBytes' = TeeWrite(fileBytes, Head(pending))
    /\ IF stdinPipeOpen /\ childState = "running"
       THEN childIn' = Append(childIn, Head(pending)) /\ UNCHANGED stdinPc
       ELSE stdinPc' = "closeStdout" /\ UNCHANGED childIn
    /\ UNCHANGED <<runPc, stdoutPc, stderrPc, wg, childState, exitStatus,
                   sigintPending, stdinPipeOpen, stdoutPipeOpen, stderrPipeOpen,
                   connIn, payload, outBuf, written, delivered, result,
                   eofBeforeExit, signalCalled>>
    /\ UNCHANGED <<serverVars, pureVars>>

\* A read that a closed connection does not end.
ReadEnds_EofOnly(in, buffered) == in = "eof" /\ buffered = <<>>

\* The Read of the connection returns without bytes: io.EOF after the last
\* byte of a client that closed its side, an error once conn.Close() ran.
ReadEnds(in, buffered) == (in = "eof" /\ buffered = <<>>) \/ in = "closed"

\* io.Copy returns because the read side ended: EOF after the last byte, or
\* an error once the connection is closed.
StdinCopyEnds ==
    /\ stdinPc = "copy"
    /\ ReadEnds(connIn, pending)
    /\ stdinPc' = "closeStdout"
    /\ eofBeforeExit' = (connIn = "eof" /\ childState = "running")
    /\ UNCHANGED <<runPc, stdoutPc, stderrPc, wg, childState, exitStatus,
                   sigintPending, stdinPipeOpen, stdoutPipeOpen, stderrPipeOpen,
                   connIn, pending, payload, fileBytes, childIn, outBuf, written,
                   delivered, result, signalCalled>>
    /\ UNCHANGED <<serverVars, pureVars>>

\* handleStdin with the signal sent before stderr is closed.
StdinStepAfter_SignalFirst(p) ==
    CASE p = "closeStdout" -> "signal"
      [] p = "signal" -> "closeStderr"
      [] OTHER -> "done"

\* The statements of handleStdin after io.Copy, in order.
StdinStepAfter(p) ==
    CASE p = "closeStdout" -> "closeStderr"
      [] p = "closeStderr" -> "signal"
      [] OTHER -> "done"

\* c.stdoutPipe.Close()
CloseStdout ==
    /\ stdinPc = "closeStdout"
    /\ stdoutPipeOpen' = FALSE
    /\ outBuf' = 0
    /\ stdinPc' = StdinStepAfter(stdinPc)
    /\ UNCHANGED <<runPc, stdoutPc, stderrPc, wg, childState, exitStatus,
                   sigintPending, stdinPipeOpen, stderrPipeOpen, connIn, pending,
                   payload, fileBytes, childIn, written, delivered, result,
                   eofBeforeExit, signalCalled>>
    /\ UNCHANGED <<serverVars, pureVars>>

\* c.stderrPipe.Close()
CloseStderr ==
    /\ stdinPc = "closeStderr"
    /\ stderrPipeOpen' = FALSE
    /\ stdinPc' = StdinStepAfter(stdinPc)
    /\ UNCHANGED <<runPc, stdoutPc, stderrPc, wg, childState, exitStatus,
                   sigintPending, stdinPipeOpen, stdoutPipeOpen, connIn, pending,
                   payload, fileBytes, childIn, outBuf, written, delivered, result,
                   eofBeforeExit, signalCalled>>
    /\ UNCHANGED <<serverVars, pureVars>>

\* c.cmd.Process.Signal(os.Interrupt): it reaches a child that still runs.
SendSigint ==
    /\ stdinPc = "signal"
    /\ signalCalled' = TRUE
    /\ sigintPending' = (childState = "running")
    /\ stdinPc' = StdinStepAfter(stdinPc)
    /\ UNCHANGED <<runPc, stdoutPc, stderrPc, wg, childState, exitStatus,
                   stdinPipeOpen, stdoutPipeOpen, stderrPipeOpen, connIn, pending,
                   payload, fileBytes, childIn, outBuf, written, delivered, result,
                   eofBeforeExit>>
    /\ UNCHANGED <<serverVars, pureVars>>

\* -------------------------------------------- handleStdout, handleStderr

\* One round of io.Copy(c.stdout, c.stdoutPipe).
StdoutCopy ==
    /\ stdoutPc = "copy"
    /\ stdoutPipeOpen
    /\ outBuf > 0
    /\ outBuf' = outBuf - 1
    /\ delivered' = delivered + 1
    /\ UNCHANGED <<runPc, stdinPc, stdoutPc, stderrPc, wg, childState, exitStatus,
                   sigintPending, stdinPipeOpen, stdoutPipeOpen, stderrPipeOpen,
                   connIn, pending, payload, fileBytes, childIn, written, result,
                   eofBeforeExit, signalCalled>>
    /\ UNCHANGED <<serverVars, pureVars>>

\* A read of a pipe ends io.Copy: EOF when the child is gone and the pipe is
\* empty, an error when the parent's read end is closed.
PipeReadEnds(open, buffered) ==
    \/ ~open
    \/ childState = "exited" /\ buffered = 0

\* copyAndDone for stdout: io.Copy returns, wg.Done().
StdoutCopyEnds ==
    /\ stdoutPc = "copy"
    /\ PipeReadEnds(stdoutPipeOpen, outBuf)
    /\ stdoutPc' = "done"
    /\ wg' = wg - 1
    /\ UNCHANGED <<runPc, stdinPc, stderrPc, childState, exitStatus, sigintPending,
                   stdinPipeOpen, stdoutPipeOpen, stderrPipeOpen, connIn, pending,
                   payload, fileBytes, childIn, outBuf, written, delivered, result,
                   eofBeforeExit, signalCalled>>
    /\ UNCHANGED <<serverVars, pureVars>>

\* copyAndDone for stderr: io.Copy returns, wg.Done().
StderrCopyEnds ==
    /\ stderrPc = "copy"
    /\ PipeReadEnds(stderrPipeOpen, 0)
    /\ stderrPc' = "done"
    /\ wg' = wg - 1
    /\ UNCHANGED <<runPc, stdinPc, stdoutPc, childState, exitStatus, sigintPending,
                   stdinPipeOpen, stdoutPipeOpen, stderrPipeOpen, connIn, pending,
                   payload, fileBytes, childIn, outBuf, written, delivered, result,
                   eofBeforeExit, signalCalled>>
    /\ UNCHANGED <<serverVars, pureVars>>

NextProxy ==
    \/ ProxyStart
    \/ ProxyWait
    \/ ProxyJoin
    \/ SessionEnd
    \/ StdinCopy
    \/ StdinCopyEnds
    \/ CloseStdout
    \/ CloseStderr
    \/ SendSigint
    \/ StdoutCopy
    \/ StdoutCopyEnds
    \/ StderrCopyEnds
    \/ ChildWrite
    \/ ChildSigpipe
    \/ ChildExit
    \/ ChildSigint
    \/ ClientSendByte
    \/ ClientClose

\* ------------------------------------------------------ slowReadFirstLine

\* The i-th byte the client sends.
ByteAt(in, i) == IF i = in.nl THEN "\n" ELSE "x"

\* A reader of the first line that stops one byte early.
FirstLineLimit_OffByOne == MAX_FIRST_LINE_SIZE - 1

\* io.LimitReader(reader, MAX_FIRST_LINE_SIZE)
FirstLineLimit == MAX_FIRST_LINE_SIZE

\* slowReadFirstLine(io.LimitReader(reader, MAX_FIRST_LINE_SIZE)) is called.
LineStart ==
    /\ linePc = "idle"
    /\ linePc' = "read"
    /\ lineN' = FirstLineLimit
    /\ UNCHANGED <<lineInput, lineConsumed, lineStr, lineErr, lineFile, lineChild>>
    /\ UNCHANGED <<serverVars, proxyVars, pathVars, fetchVars, scoreVars>>

\* One turn of the loop: reader.Read(buf) with a buffer of one byte.  The
\* limited reader answers io.EOF once N is 0, and the connection answers it
\* when the client has closed its side.
LineReadByte ==
    /\ linePc = "read"
    /\ IF lineN = 0 \/ lineConsumed = lineInput.len
       THEN /\ lineErr' = IF lineStr = MAX_FIRST_LINE_SIZE THEN "tooLong" ELSE "eof"
            /\ linePc' = "failed"
            /\ UNCHANGED <<lineConsumed, lineN, lineStr>>
       ELSE /\ lineConsumed' = lineConsumed + 1
            /\ lineN' = lineN - 1
            /\ lineStr' = lineStr + 1
            /\ linePc' = IF ByteAt(lineInput, lineConsumed + 1) = "\n"
                         THEN "accepted" ELSE "read"
            /\ UNCHANGED lineErr
    /\ UNCHANGED <<lineInput, lineFile, lineChild>>
    /\ UNCHANGED <<serverVars, proxyVars, pathVars, fetchVars, scoreVars>>

\* The line is accepted: isRegularFile, os.Create(inputPath), proxy.run().
LineProceed ==
    /\ linePc = "accepted"
    /\ \E regular \in BOOLEAN :
          IF regular
          THEN /\ lineFile' = TRUE
               /\ lineChild' = TRUE
               /\ linePc' = "run"
               /\ UNCHANGED lineErr
          ELSE /\ lineErr' = "unknown"
               /\ linePc' = "failed"
               /\ UNCHANGED <<lineFile, lineChild>>
    /\ UNCHANGED <<lineInput, lineConsumed, lineN, lineStr>>
    /\ UNCHANGED <<serverVars, proxyVars, pathVars, fetchVars, scoreVars>>

NextLine == LineStart \/ LineReadByte \/ LineProceed

\* ------------------------------------------------- the task's executable

\* -build, an absolute directory.
binariesDirectory == <<"srv", "build">>

\* strings.ReplaceAll(task, "_", "-")
Dashed(seg) == IF seg = "a_b" THEN "a-b" ELSE seg

\* strings.ReplaceAll(task, "-", "_")
Underscored(seg) == IF seg = "a-b" THEN "a_b" ELSE seg

\* path.Clean of a rooted path: empty and "." elements are dropped, ".."
\* drops the element before it, and at the root it is dropped itself.
RECURSIVE Clean(_, _)
Clean(done, rest) ==
    IF rest = <<>> THEN done
    ELSE LET e == Head(rest)
         IN  CASE e \in {"", "."} -> Clean(done, Tail(rest))
               [] e = ".." -> Clean(IF done = <<>> THEN done
                                    ELSE SubSeq(done, 1, Len(done) - 1), Tail(rest))
               [] OTHER -> Clean(Append(done, e), Tail(rest))

\* path.Join(c.binariesDirectory, "ctf_"+strings.ReplaceAll(task, "-", "_")),
\* the task already with "-" for "_".
ExecutablePath(t) ==
    LET u == [i \in 1 .. Len(t) |-> Underscored(Dashed(t[i]))]
    IN  Clean(<<>>, binariesDirectory \o <<"ctf_" \o u[1]>> \o Tail(u))

\* The path is the binaries directory or below it.
InsideBinaries(p) ==
    /\ Len(p) >= Len(binariesDirectory)
    /\ SubSeq(p, 1, Len(binariesDirectory)) = binariesDirectory

PathResolve ==
    /\ pathPc = "idle"
    /\ executablePath' = ExecutablePath(task)
    /\ pathPc' = "resolved"
    /\ UNCHANGED <<task, statted, executed>>
    /\ UNCHANGED <<serverVars, proxyVars, lineVars, fetchVars, scoreVars>>

\* if !isRegularFile(executablePath) { return ... }
PathStat ==
    /\ pathPc = "resolved"
    /\ statted' = statted \cup {executablePath}
    /\ \E regular \in BOOLEAN : pathPc' = IF regular THEN "create" ELSE "unknown"
    /\ UNCHANGED <<task, executablePath, executed>>
    /\ UNCHANGED <<serverVars, proxyVars, lineVars, fetchVars, scoreVars>>

\* os.Create(inputPath), exec.Command(executablePath), proxy.run()
PathRun ==
    /\ pathPc = "create"
    /\ \E created \in BOOLEAN :
          IF created
          THEN executed' = executed \cup {executablePath} /\ pathPc' = "run"
          ELSE UNCHANGED executed /\ pathPc' = "failed"
    /\ UNCHANGED <<task, executablePath, statted>>
    /\ UNCHANGED <<serverVars, proxyVars, lineVars, fetchVars, scoreVars>>

NextPath == PathResolve \/ PathStat \/ PathRun

\* ------------------------------------------------- flagFetcher.fetchFlag

\* What one doFetchFlag call returns: the flag ("ok"), or the error of
\* http.Post or ioutil.ReadAll ("transport"), of json.Unmarshal ("parse"), or
\* the server's error when response.Ok is false ("notok").
FetchOutcomes == {"ok", "transport", "parse", "notok"}

\* A loop that goes on after a success.
RetryOn_Always(e) == TRUE

\* backoff.Retry: if err = operation(); err == nil { return nil }
RetryOn(e) == e # "ok"

\* ExponentialBackOff.NextBackOff answers Stop when the pause would end after
\* MaxElapsedTime.
BackOffStops(t, next) == t + next > MaxElapsedTime

\* fetchFlag calls backoff.Retry, which resets the policy.
FetchStart ==
    /\ fetchPc = "idle"
    /\ fetchPc' = "attempt"
    /\ UNCHANGED <<elapsed, attempts, successes, lastErr, flag, fetchErr>>
    /\ UNCHANGED <<serverVars, proxyVars, lineVars, pathVars, scoreVars>>

\* The operation: flag, err = f.doFetchFlag(task).  The step is the return of
\* the call; a remote that accepts the request and never answers never lets
\* it happen.
FetchAttempt ==
    /\ fetchPc = "attempt"
    /\ \E out \in FetchOutcomes, d \in 0 .. MaxAttemptTime :
          /\ lastErr' = out
          /\ flag' = IF out = "ok" THEN "flag" ELSE ""
          /\ successes' = IF out = "ok" THEN successes + 1 ELSE successes
          /\ elapsed' = elapsed + d
    /\ attempts' = attempts + 1
    /\ fetchPc' = "decide"
    /\ UNCHANGED fetchErr
    /\ UNCHANGED <<serverVars, proxyVars, lineVars, pathVars, scoreVars>>

\* The rest of the loop of backoff.Retry: return nil after a success, return
\* the error when the policy says Stop, and pause otherwise.
FetchDecide ==
    /\ fetchPc = "decide"
    /\ IF ~RetryOn(lastErr)
       THEN /\ fetchErr' = "nil"
            /\ fetchPc' = "done"
            /\ UNCHANGED elapsed
       ELSE \E next \in 1 .. MaxSleep :
               IF BackOffStops(elapsed, next)
               THEN /\ fetchErr' = IF lastErr = "ok" THEN "nil" ELSE lastErr
                    /\ fetchPc' = "done"
                    /\ UNCHANGED elapsed
               ELSE /\ elapsed' = elapsed + next
                    /\ fetchPc' = "attempt"
                    /\ UNCHANGED fetchErr
    /\ UNCHANGED <<attempts, successes, lastErr, flag>>
    /\ UNCHANGED <<serverVars, proxyVars, lineVars, pathVars, scoreVars>>

NextFetch == FetchStart \/ FetchAttempt \/ FetchDecide

\* ------------------------------------------------- Scorer.scorePipeline

\* scorePipeline for a task worth score, a pipeline of the given status that
\* was created on day createdAt, and a group with the given deadline.  Between
\* the deadline and a week after it the code computes
\*     mult := 0.5 + 0.5*CreatedAt.Sub(deadline).Seconds()/week.Seconds()
\*     int(float64(task.Score) * mult)
\* which for whole days is score * (week + days late) / (2 * week), rounded
\* down.
ScorePipeline(score, status, deadline, createdAt) ==
    IF status # "success" THEN 0
    ELSE IF createdAt < deadline THEN score
    ELSE IF createdAt > deadline + week THEN score \div 2
    ELSE (score * (week + (createdAt - deadline))) \div (2 * week)

\* scorePipeline for the pipeline created at scoreIn.createdAt.
ScoreFirst ==
    /\ scorePc = "idle"
    /\ scoreOut' = <<ScorePipeline(scoreIn.score, scoreIn.status, scoreIn.deadline,
                                   scoreIn.createdAt), scoreOut[2]>>
    /\ scorePc' = "first"
    /\ UNCHANGED scoreIn
    /\ UNCHANGED <<serverVars, proxyVars, lineVars, pathVars, fetchVars>>

\* scorePipeline for the pipeline created at scoreIn.later.
ScoreSecond ==
    /\ scorePc = "first"
    /\ scoreOut' = <<scoreOut[1], ScorePipeline(scoreIn.score, scoreIn.status,
                                                scoreIn.deadline, scoreIn.later)>>
    /\ scorePc' = "done"
    /\ UNCHANGED scoreIn
    /\ UNCHANGED <<serverVars, proxyVars, lineVars, pathVars, fetchVars>>

NextScore == ScoreFirst \/ ScoreSecond

\* ---------------------------------------------------------- specifications

Spec == Init /\ [][Next]_vars

\* The goroutines of the server are scheduled, the timer of
\* context.WithTimeout fires, a started child ends; the listener and the
\* client owe nothing.
FairSpec ==
    /\ Init
    /\ [][Next]_vars
    /\ WF_vars(HandleNilConn)
    /\ \A c \in Conns :
          /\ WF_vars(TryAcquire(c))
          /\ WF_vars(Acquire(c))
          /\ WF_vars(AcquireReady(c))
          /\ WF_vars(AcquireCancelled(c))
          /\ WF_vars(Prompt(c))
          /\ WF_vars(ReadFirstLine(c))
          /\ WF_vars(ResolveTask(c))
          /\ WF_vars(CreateSubmit(c))
          /\ WF_vars(PrepareProxy(c))
          /\ WF_vars(StartChild(c))
          /\ WF_vars(RunReturns(c))
          /\ WF_vars(Classify(c))
          /\ WF_vars(FetchFlag(c))
          /\ WF_vars(Return(c))

SpecAccept == Init /\ [][NextAccept]_vars

SpecProxy == Init /\ [][NextProxy]_vars

\* The goroutines of the proxy are scheduled; the child and the client owe
\* nothing.
FairSpecProxy ==
    /\ Init
    /\ [][NextProxy]_vars
    /\ WF_vars(ProxyStart)
    /\ WF_vars(ProxyWait)
    /\ WF_vars(ProxyJoin)
    /\ WF_vars(SessionEnd)
    /\ WF_vars(StdinCopy)
    /\ WF_vars(StdinCopyEnds)
    /\ WF_vars(CloseStdout)
    /\ WF_vars(CloseStderr)
    /\ WF_vars(SendSigint)
    /\ WF_vars(StdoutCopy)
    /\ WF_vars(StdoutCopyEnds)
    /\ WF_vars(StderrCopyEnds)

InitLine ==
    /\ InitProgram
    /\ lineInput \in {in \in LineInputs : in.nl <= in.len}
    /\ LineIdle
    /\ PathOff
    /\ FetchIdle
    /\ ScoreOff

SpecLine == InitLine /\ [][NextLine]_vars

InitPath ==
    /\ InitProgram
    /\ LineOff
    /\ task \in TaskNames
    /\ PathIdle
    /\ FetchIdle
    /\ ScoreOff

SpecPath == InitPath /\ [][NextPath]_vars

SpecFetch == Init /\ [][NextFetch]_vars

\* The loop of backoff.Retry goes on.  Nothing makes an attempt return:
\* http.Post uses http.DefaultClient, which has no timeout, and is given no
\* context, so an attempt lasts as long as the remote keeps it waiting.
FairSpecFetch == SpecFetch /\ WF_vars(FetchStart) /\ WF_vars(FetchDecide)

InitScore ==
    /\ InitProgram
    /\ LineOff
    /\ PathOff
    /\ FetchIdle
    /\ scoreIn \in ScoreInputs
    /\ ScoreIdle

SpecScore == InitScore /\ [][NextScore]_vars

\* ------------------------------------------------------------------ claims

HeldBy(c) == acquired[c] > released[c]

Finished(c) == pc[c] = "closed"

Has(c, m) == \E i \in 1 .. Len(sent[c]) : sent[c][i] = m

\* m1 is written before m2 whenever both are written.
Before(c, m1, m2) ==
    \A i, j \in 1 .. Len(sent[c]) : sent[c][i] = m1 /\ sent[c][j] = m2 => i < j

\* C1: the semaphore never hands out more than concurrencyLevel tokens, no
\* more than concurrencyLevel connections hold one, a child process runs only
\* for a connection that holds one, so no more than concurrencyLevel children
\* run at once.
C1_SlotsBounded ==
    /\ semaCur <= concurrencyLevel
    /\ Cardinality({c \in Conns : HeldBy(c)}) <= concurrencyLevel
    /\ \A c \in Conns : pc[c] \in {"run", "running"} => HeldBy(c)
    /\ Cardinality({c \in Conns : pc[c] = "running"}) <= concurrencyLevel

\* A child runs for one connection while another is queued for the slot.
C1_Witness ==
    \E c, d \in Conns : pc[c] = "running" /\ HeldBy(c) /\ pc[d] = "blocked" /\ InWaiters(d)

\* C2: a connection releases at most what it acquired, and acquires at most
\* once; when doHandleConnection has ended it has released exactly once if it
\* acquired and not at all if the acquisition failed; when every accepted
\* connection has ended no token is out and nobody is queued.
C2_ReleasedExactlyOnce ==
    /\ \A c \in Conns :
          /\ released[c] <= acquired[c]
          /\ acquired[c] <= 1
          /\ Finished(c) => released[c] = acquired[c]
          /\ Finished(c) => (acquired[c] = 0 <=> err[c] = "acquire")
    /\ (\A c \in Conns : pc[c] # "none" => Finished(c)) =>
          semaCur = 0 /\ semaWaiters = <<>>

\* Every connection has ended, one after a failed acquisition and one after a
\* crash whose flag could not be fetched.
C2_Witness ==
    /\ \A c \in Conns : pc[c] = "closed"
    /\ \E c, d \in Conns :
          /\ err[c] = "acquire" /\ acquired[c] = 0 /\ released[c] = 0
          /\ err[d] = "fetch" /\ acquired[d] = 1 /\ released[d] = 1
    /\ semaCur = 0

\* C3: when the copy of the client's input has seen the input end while the
\* child was running, the result of run is classified Interrupted.
C3_EofMeansInterrupted ==
    (runPc \in {"returned", "closed"} /\ eofBeforeExit) => Outcome(result) = "Interrupted"

\* C4: fetchFlag is called at most once for a connection, and only after its
\* child was started and Wait returned an exit error that is not a
\* termination by SIGINT; no other way out of doHandleConnection calls it.
C4_FlagOnlyOnCrash ==
    \A c \in Conns :
        /\ fetchCalls[c] <= 1
        /\ fetchCalls[c] = 1 => runErr[c] \in {"exit", "signal"} /\ Has(c, "Running")
        /\ err[c] \in {"acquire", "firstline", "unknown", "create", "prepare",
                       "start", "eof", "write"} => fetchCalls[c] = 0
        /\ Has(c, "Finished") => fetchCalls[c] = 0

\* A connection whose child was killed by a signal other than SIGINT got a flag.
C4_Witness ==
    \E c \in Conns :
        pc[c] = "closed" /\ runErr[c] = "signal" /\ fetchCalls[c] = 1 /\ Has(c, "Flag")

\* C5: the process ends only by the panic of main at an exhausted budget, and
\* no handler runs for a failed Accept.
C5_OnlyBudgetIsFatal ==
    /\ process # "running" => process = "fatal" /\ currentAcceptErrorsBudget = 0
    /\ nilHandlers = 0

\* C6 as stated: the budget stays within 0 .. 10 and main panics exactly when
\* the budget is zero.
C6_FatalWhenBudgetZero ==
    /\ currentAcceptErrorsBudget \in 0 .. acceptErrorsBudget
    /\ process = "fatal" <=> currentAcceptErrorsBudget = 0

\* C6 as amended: the budget stays within 0 .. 10; a failed Accept that does
\* not end the process finds a budget above zero and lowers it by one; a
\* successful Accept raises a budget below 10 by one and leaves a budget of 10;
\* main panics only on a failed Accept that finds the budget at zero.
C6_BudgetSteps ==
    /\ [](currentAcceptErrorsBudget \in 0 .. acceptErrorsBudget)
    /\ [][ /\ nilHandlers' = nilHandlers + 1 =>
                /\ currentAcceptErrorsBudget > 0
                /\ currentAcceptErrorsBudget' = currentAcceptErrorsBudget - 1
           /\ Accepted' = Accepted + 1 =>
                currentAcceptErrorsBudget' =
                    IF currentAcceptErrorsBudget < acceptErrorsBudget
                    THEN currentAcceptErrorsBudget + 1
                    ELSE acceptErrorsBudget
           /\ (process = "running" /\ process' = "fatal") =>
                /\ currentAcceptErrorsBudget = 0
                /\ currentAcceptErrorsBudget' = 0
                /\ nilHandlers' = nilHandlers
         ]_vars

\* main has panicked after eleven failed Accepts, one unit having been
\* restored by a success in between.
C6_Witness ==
    /\ process = "fatal"
    /\ currentAcceptErrorsBudget = 0
    /\ nilHandlers = acceptErrorsBudget + 1

\* C7: once run has returned from a started child, the child has exited and
\* both output copy tasks have called wg.Done.
C7_RunJoinsOutputCopies ==
    (runPc \in {"returned", "closed"} /\ result # "starterr") =>
        /\ childState = "exited"
        /\ stdoutPc = "done"
        /\ stderrPc = "done"
        /\ wg = 0

\* run has returned while the client's input is still open.
C7_Witness ==
    /\ runPc = "returned"
    /\ result = "exit"
    /\ connIn = "open"
    /\ stdoutPc = "done"
    /\ stderrPc = "done"

\* C8: handleStdin signals the child only after it has closed the read ends of
\* stdout and stderr, and once its copy has ended both output copy tasks end.
C8_ClosesBeforeSignal ==
    /\ []((stdinPc = "signal" \/ signalCalled) => ~stdoutPipeOpen /\ ~stderrPipeOpen)
    /\ (stdinPc \in {"closeStdout", "closeStderr", "signal", "done"})
          ~> (stdoutPc = "done" /\ stderrPc = "done")

\* Both output copy tasks have ended, the child ignored the signal and runs.
C8_Witness ==
    /\ signalCalled
    /\ ~sigintPending
    /\ childState = "running"
    /\ stdoutPc = "done"
    /\ stderrPc = "done"

\* C9 as stated: the prompt is written before admission is attempted, so a
\* connection that is told to wait has been prompted before.
C9_PromptBeforeAdmission ==
    \A c \in Conns :
        Has(c, "Waiting") => Has(c, "Prompt") /\ Before(c, "Prompt", "Waiting")

\* C9 as amended: admission comes first.  The prompt is written only by a
\* connection that holds a slot, after the waiting notice if there is one, and
\* the lines that follow keep the order of the session states.
C9_AdmissionBeforePrompt ==
    \A c \in Conns :
        /\ Has(c, "Prompt") => acquired[c] = 1
        /\ pc[c] \in {"handle", "notice", "blocked", "retAcquire"} => ~Has(c, "Prompt")
        /\ Before(c, "Waiting", "Prompt")
        /\ Before(c, "Prompt", "Running")
        /\ Before(c, "Running", "Finished")
        /\ Before(c, "Running", "CommandFailed")
        /\ Before(c, "CommandFailed", "Flag")
        /\ Has(c, "Running") => Has(c, "Prompt")
        /\ Has(c, "Finished") \/ Has(c, "CommandFailed") => Has(c, "Running")
        /\ Has(c, "Flag") => Has(c, "CommandFailed")

\* A connection that had to queue ran its task to the end.
C9_Witness ==
    \E c \in Conns :
        sent[c] = <<"Waiting", "Prompt", "Running", "Finished">> /\ pc[c] = "closed"

\* C10: a connection that holds a slot releases it in the end (as long as the
\* process lives).
C10_SlotEventuallyReleased ==
    \A c \in Conns : HeldBy(c) ~> (~HeldBy(c) \/ process # "running")

\* C11: a connection whose Acquire failed on the deadline holds no slot, has
\* released none and is no longer queued, and it ends with the error line.
C11_NoSlotAfterTimeout ==
    \A c \in Conns :
        err[c] = "acquire" =>
            /\ acquired[c] = 0
            /\ released[c] = 0
            /\ ~InWaiters(c)
            /\ ~Has(c, "Prompt")
            /\ Finished(c) => sent[c] = <<"Waiting", "Error">>

\* C11: a connection blocked in Acquire does not stay blocked (as long as the
\* process lives): it is handed a slot or its deadline unblocks it, and the
\* deadline's error reaches the client; a connection the deadline unblocked
\* never holds or releases a slot.
C11_AcquireNeverWaitsForever ==
    /\ []C11_NoSlotAfterTimeout
    /\ \A c \in Conns :
          /\ pc[c] = "blocked" ~> (pc[c] # "blocked" \/ process # "running")
          /\ err[c] = "acquire" ~> (Has(c, "Error") \/ process # "running")

\* The deadline ended one connection's wait while the other still holds the
\* slot it never released.
C11_Witness ==
    \E c, d \in Conns :
        /\ err[c] = "acquire" /\ Finished(c) /\ Has(c, "Error")
        /\ HeldBy(d) /\ pc[d] = "readLine"

Count(c, m) == Cardinality({i \in 1 .. Len(sent[c]) : sent[c][i] = m})

OtherReleased(c) == \E d \in Conns \ {c} : released[d] >= 1

\* C12, in every state: the waiting notice is written at most once, before the
\* connection blocks and not before its non-blocking acquire failed; a queued
\* connection is not refused (without a slot it fails on the deadline only);
\* and a connection that got the notice holds a slot, is prompted, reads its
\* task line or runs its child only after another connection released one.
C12_QueuedState ==
    \A c \in Conns :
        /\ Count(c, "Waiting") <= 1
        /\ pc[c] \in {"none", "handle", "notice"} => ~Has(c, "Waiting")
        /\ pc[c] = "blocked" => sent[c] = <<"Waiting">>
        /\ Has(c, "Waiting") /\ acquired[c] = 0 /\ err[c] # "nil" => err[c] = "acquire"
        /\ Has(c, "Waiting") /\ (acquired[c] >= 1 \/ Has(c, "Prompt") \/ Has(c, "Running"))
              => OtherReleased(c)
        /\ Has(c, "Waiting") /\ pc[c] \in {"readLine", "resolve", "run", "running"}
              => OtherReleased(c)

\* C12, in every step: the notice is written by the connection whose
\* non-blocking acquire has just failed, and that acquire fails only while all
\* slots are held.
C12_QueuedStep ==
    \A c \in Conns :
        /\ Has(c, "Waiting")' /\ ~Has(c, "Waiting") => pc[c] = "notice"
        /\ pc'[c] = "notice" /\ pc[c] # "notice"
              => pc[c] = "handle" /\ semaCur = concurrencyLevel

\* C12: a connection that finds all slots held is queued, not rejected.
C12_QueuedNotRejected == []C12_QueuedState /\ [][C12_QueuedStep]_vars

\* A connection that had to wait runs its child after the other one released
\* the slot.
C12_Witness ==
    \E c \in Conns :
        /\ sent[c] = <<"Waiting", "Prompt", "Running">> /\ pc[c] = "running"
        /\ OtherReleased(c)

TerminalMessages == {"Finished", "Flag", "Error"}

Terminal(c) == Count(c, "Finished") + Count(c, "Flag") + Count(c, "Error")

\* C13: a connection gets at most one of the three terminal messages, and
\* nothing is written after it; when handleConnection has ended it got exactly
\* one, the error line if and only if doHandleConnection returned an error;
\* after a terminal message the session can only return and close, and it
\* closes on the paths that return before the slot is held as well.
C13_OneTerminalMessage ==
    \A c \in Conns :
        /\ Terminal(c) <= 1
        /\ Terminal(c) = 1 =>
              /\ sent[c][Len(sent[c])] \in TerminalMessages
              /\ pc[c] \in {"ret", "closed"}
        /\ Finished(c) =>
              /\ Terminal(c) = 1
              /\ Has(c, "Error") <=> err[c] # "nil"
              /\ Has(c, "Finished") <=> err[c] = "nil" /\ Outcome(runErr[c]) = "NormalExit"
              /\ Has(c, "Flag") <=> err[c] = "nil" /\ Outcome(runErr[c]) = "CrashExit"
        /\ pc[c] \in {"ret", "retAcquire"} /\ process = "running" => ENABLED Return(c)

\* One connection ended with the flag after the failure notice, the other with
\* the error line.
C13_Witness ==
    \E c, d \in Conns :
        /\ Finished(c) /\ sent[c][Len(sent[c])] = "Flag" /\ Has(c, "CommandFailed")
        /\ Finished(d) /\ sent[d][Len(sent[d])] = "Error"

NewlineInFirstLine == lineInput.nl \in 1 .. MAX_FIRST_LINE_SIZE

\* C14: without a newline among the first MAX_FIRST_LINE_SIZE bytes the
\* session fails on the first line, with no submission file and no child; a
\* newline at or before byte MAX_FIRST_LINE_SIZE is accepted; the reader of
\* the line never reads past that newline, nor past byte MAX_FIRST_LINE_SIZE.
C14_FirstLineBounded ==
    /\ lineConsumed <= MAX_FIRST_LINE_SIZE
    /\ NewlineInFirstLine => lineConsumed <= lineInput.nl
    /\ linePc \in {"accepted", "run"} => NewlineInFirstLine /\ lineConsumed = lineInput.nl
    /\ linePc = "failed" /\ NewlineInFirstLine =>
          lineErr = "unknown" /\ lineConsumed = lineInput.nl
    /\ linePc = "failed" /\ ~NewlineInFirstLine =>
          lineErr \in {"tooLong", "eof"} /\ ~lineFile /\ ~lineChild
    /\ lineErr = "tooLong" <=> linePc = "failed" /\ lineConsumed = MAX_FIRST_LINE_SIZE
                                  /\ ~NewlineInFirstLine
    /\ lineFile \/ lineChild => NewlineInFirstLine

\* The newline is byte MAX_FIRST_LINE_SIZE, more bytes follow it, the task runs.
C14_Witness ==
    /\ lineInput.nl = MAX_FIRST_LINE_SIZE /\ lineInput.len > MAX_FIRST_LINE_SIZE
    /\ linePc = "run" /\ lineFile /\ lineConsumed = MAX_FIRST_LINE_SIZE

\* C15: the path the task name is mapped to is inside the binaries directory,
\* and no path outside of it is given to isRegularFile or started.
C15_ExecutableInsideBinaries ==
    /\ pathPc # "idle" => InsideBinaries(executablePath)
    /\ \A p \in statted \cup executed : InsideBinaries(p)

IsPrefix(p, q) == Len(p) <= Len(q) /\ SubSeq(q, 1, Len(p)) = p

\* The payload bytes the client has sent so far.
Sent == [i \in 1 .. payload |-> i]

\* C16: the submission file holds the bytes written to the child's stdin, no
\* more and no less.
C16_FileEqualsChildInput == fileBytes = childIn

\* C16 as amended: what the child received is a prefix of the file, and the
\* file a prefix of what the client sent; the two are equal until a write to
\* the child's stdin fails, and then the file holds the one chunk more that
\* was read last, and the copy has stopped.
C16_ChildInputPrefixOfFile ==
    /\ IsPrefix(childIn, fileBytes)
    /\ IsPrefix(fileBytes, Sent)
    /\ fileBytes \o pending = Sent
    /\ Len(fileBytes) <= Len(childIn) + 1
    /\ stdinPc \in {"idle", "copy"} => fileBytes = childIn

\* The child took the first byte and was gone when the second was copied.
C16_Witness ==
    /\ childIn = <<1>> /\ fileBytes = <<1, 2>>
    /\ childState = "exited" /\ stdinPc # "copy"

\* C17, in every state: at most one attempt succeeds, and none follows it;
\* fetchFlag returns nil with the flag of that attempt, or the error of the
\* last attempt and no flag, and an error only once the budget of
\* MaxElapsedTime leaves no room for the next pause.
C17_RetryState ==
    /\ successes <= 1
    /\ successes = 1 => lastErr = "ok" /\ fetchPc \in {"decide", "done"}
    /\ fetchPc = "done" /\ fetchErr = "nil" =>
          lastErr = "ok" /\ successes = 1 /\ flag = "flag"
    /\ fetchPc = "done" /\ fetchErr # "nil" =>
          /\ fetchErr = lastErr /\ lastErr # "ok" /\ successes = 0 /\ flag = ""
          /\ elapsed + MaxSleep > MaxElapsedTime
    /\ fetchPc = "done" => attempts >= 1
    /\ fetchPc # "done" => fetchErr = "none"

\* C17, in every step: an attempt that failed while the budget has room for
\* the longest pause is followed by another attempt.
C17_RetryStep ==
    fetchPc = "decide" /\ lastErr # "ok" /\ elapsed + MaxSleep <= MaxElapsedTime
        => fetchPc' = "attempt" /\ elapsed' > elapsed

\* C17: fetchFlag returns, whatever the remote does, and until then it
\* retries as C17_RetryState and C17_RetryStep say.
C17_FetchTerminates ==
    /\ []C17_RetryState
    /\ [][C17_RetryStep]_vars
    /\ <>(fetchPc = "done")

C19_OutputNotTruncated ==
    (/\ runPc \in {"returned", "closed"} /\ result # "starterr"
     /\ stdinPc = "copy" /\ ~signalCalled /\ ~eofBeforeExit)
        => delivered = written

\* C20: a pipeline that did not succeed scores 0; a successful one scores
\* the full task score up to the deadline, half of it from one week after the
\* deadline on, something between the two in the week between, and of two
\* successful pipelines the one created later never scores more.
C20_ScoreDecays ==
    scorePc = "done" =>
        IF scoreIn.status # "success"
        THEN scoreOut = <<0, 0>>
        ELSE /\ scoreIn.createdAt <= scoreIn.deadline => scoreOut[1] = scoreIn.score
             /\ scoreIn.createdAt >= scoreIn.deadline + week =>
                    scoreOut[1] = scoreIn.score \div 2
             /\ scoreOut[1] <= scoreIn.score
             /\ scoreOut[1] >= scoreIn.score \div 2
             /\ scoreIn.createdAt <= scoreIn.later => scoreOut[2] <= scoreOut[1]

====
